---- MODULE Spec2Model ----
(***************************************************************************)
(* The three vehicle-routing solvers of tig-algorithms/src/vehicle_routing: *)
(*   clarke_wright_merge_vrp.rs  savings merge             (solver "cw")    *)
(*   annealing.rs                simulated annealing       (solver "sa")    *)
(*   "test copy.rs"              iterative refinement      (solver "ir")    *)
(* One behaviour is one call of solve_challenge on one Challenge.           *)
(* Rust indices are 0-based: At(s, k) reads s[k] of the source.             *)
(***************************************************************************)
EXTENDS Integers, Sequences, FiniteSets, TLC

\* ------------------------------------------------------------------------
\* Bounds of the model
NumNodes == 4           \* num_nodes of the instances the solvers are run on
TwoOptNodes == 5        \* num_nodes of the instances 2-opt alone is run on
MaxIterations == 3      \* MAX_ITERATIONS of the refinement loop, scaled down
MaxAnnealIters == 1     \* inner annealing iterations that are explored
MaxRoutes == 5          \* routes the nearest-neighbour construction may open

\* Values of the instance fields.  Customers sit on the points Coords of a
\* line and the depot on the middle one; Slopes are the one-way surcharges.
\* The demands 10 with capacity 15 are those of the documented savings
\* scenario; a demand 10 with capacity 3 is a malformed instance.
Coords == {0, 2, 5}
DepotCoord == {1}
Slopes == {0, 1}
Demands == {1, 2}
ScenarioDemands == {10}
Capacities == {3, 15}
DistanceBounds == {4, 8, 100}
Tolls == {0, 1, 2}      \* one-way surcharges of the ring legs

VARIABLES
    solver,             \* which solve_challenge is running
    num_nodes,          \* challenge.difficulty.num_nodes
    distance_matrix,    \* challenge.distance_matrix
    demands,            \* challenge.demands
    capacity,           \* challenge.max_capacity
    max_total_distance, \* challenge.max_total_distance
    pc,                 \* position in solve_challenge
    scores,             \* cw: the pairs of `scores` not yet iterated
    routes,             \* cw: Vec<Option<Vec<usize>>>, None is <<>>
    route_demands,      \* cw
    current_solution,   \* sa
    current_fitness,    \* sa
    best_solution,      \* sa, ir
    best_fitness,       \* sa, ir
    new_solution,       \* ir
    visited,            \* ir: construct_initial_solution
    current_load,       \* ir: construct_initial_solution
    iter,               \* sa: inner iterations done; ir: loop iterations done
    result              \* what solve_challenge returned

vars == <<solver, num_nodes, distance_matrix, demands, capacity, max_total_distance, pc,
          scores, routes, route_demands, current_solution, current_fitness,
          best_solution, best_fitness, new_solution, visited, current_load,
          iter, result>>

instance == <<num_nodes, distance_matrix, demands, capacity, max_total_distance>>

Nodes == 0..(num_nodes - 1)
Customers == 1..(num_nodes - 1)
cwVars == <<scores, routes, route_demands>>
saVars == <<current_solution, current_fitness>>
irVars == <<new_solution, visited, current_load>>

\* ------------------------------------------------------------------------
\* Helpers for Rust's vectors
At(s, k) == s[k + 1]
Last(s) == s[Len(s)]
Reverse(s) == [k \in 1..Len(s) |-> s[Len(s) + 1 - k]]
None == <<>>

RECURSIVE SeqSum(_)
SeqSum(s) == IF s = <<>> THEN 0 ELSE Head(s) + SeqSum(Tail(s))

Abs(x) == IF x < 0 THEN 0 - x ELSE x

\* ------------------------------------------------------------------------
\* The instances: nodes on a line, an edge costs the distance between its
\* ends plus a surcharge when it goes up the line (the matrix need not be
\* symmetric); every cost is a non-negative integer and d[i][i] = 0.
LineMatrix(x, s) ==
    [i \in Nodes |-> [j \in Nodes |->
        Abs(x[i] - x[j]) + (IF x[j] > x[i] THEN s ELSE 0)]]

Matrices ==
    {LineMatrix([i \in Nodes |-> IF i = 0 THEN x0 ELSE x[i]], s) :
        x \in [Customers -> Coords], x0 \in DepotCoord, s \in Slopes}

DemandVectors ==
    {[i \in Nodes |-> IF i = 0 THEN 0 ELSE q[i]] : q \in [Customers -> Demands]}
    \cup {[i \in Nodes |-> IF i = 0 THEN 0 ELSE q] : q \in ScenarioDemands}

ValidInstance ==
    /\ demands[0] = 0
    /\ \A i \in Nodes : 0 <= demands[i] /\ demands[i] <= capacity

Pending == [kind |-> "Pending", routes |-> <<>>]

InitFor(n, solvers) ==
    /\ solver \in solvers
    /\ num_nodes = n
    /\ distance_matrix \in Matrices
    /\ demands \in DemandVectors
    /\ capacity \in Capacities
    /\ max_total_distance \in DistanceBounds
    /\ pc = "start"
    /\ scores = {}
    /\ routes = [i \in Nodes |-> None]
    /\ route_demands = [i \in Nodes |-> 0]
    /\ current_solution = <<>>
    /\ current_fitness = 0
    /\ best_solution = <<>>
    /\ best_fitness = 0
    /\ new_solution = <<>>
    /\ visited = [i \in Nodes |-> FALSE]
    /\ current_load = 0
    /\ iter = 0
    /\ result = Pending

\* ------------------------------------------------------------------------
\* Distance evaluation
\* sum of distance_matrix[pair[0]][pair[1]] over route.windows(2)
WindowsCost(route) ==
    SeqSum([k \in 1..(Len(route) - 1) |-> distance_matrix[route[k]][route[k + 1]]])

\* calculate_fitness (annealing.rs) and calculate_total_distance (test copy.rs)
calculate_total_distance(solution) ==
    SeqSum([r \in 1..Len(solution) |-> WindowsCost(solution[r])])

calculate_fitness(solution) == calculate_total_distance(solution)

RouteLoad(route) == SeqSum([k \in 1..Len(route) |-> demands[route[k]]])

\* ========================================================================
\* clarke_wright_merge_vrp.rs
\* ========================================================================
Score(i, j) == distance_matrix[i][0] + distance_matrix[0][j] - distance_matrix[i][j]

AllPairs == {p \in Customers \X Customers : p[1] < p[2]}

\* `scores` is sorted by descending score with sort_unstable_by, which leaves
\* the order of equal scores open: the next pair of the iteration is any
\* remaining pair of greatest score.
NextPairs == {p \in scores : \A q \in scores : Score(q[1], q[2]) <= Score(p[1], p[2])}

\* calculate_route_distance: depot -> route -> depot
calculate_route_distance(route) == WindowsCost(<<0>> \o route \o <<0>>)

\* variant: the demand of the right route is left out of the sum
MergedDemandNoRight(left_startnode, right_startnode) == route_demands[left_startnode]

\* merged_demand

MergedDemand(left_startnode, right_startnode) ==
    route_demands[left_startnode] + route_demands[right_startnode]

\* first `continue`: one of the two routes is None
CWMissing(i, j) == routes[i] = None \/ routes[j] = None

\* second `continue`: same route, or the merged demand exceeds the capacity
CWInfeasible(i, j) ==
    \/ routes[i][1] = routes[j][1]
    \/ MergedDemand(routes[i][1], routes[j][1]) > capacity

CWSkipped(i, j) == IF CWMissing(i, j) THEN TRUE ELSE CWInfeasible(i, j)

\* new_route: left reversed when it starts with i, right reversed when it
\* ends with j, then concatenated
NewRoute(i, j) ==
    LET left_route == IF routes[i][1] = i THEN Reverse(routes[i]) ELSE routes[i]
        right_route == IF Last(routes[j]) = j THEN Reverse(routes[j]) ELSE routes[j]
    IN  left_route \o right_route

\* new_route_distance as f64 > max_total_distance as f64 * 1.05; on the
\* integers of the model 1.05 * m is exact in f64 or not an integer
ExceedsDistance(new_route_distance) ==
    20 * new_route_distance > 21 * max_total_distance

CWStart ==
    /\ pc = "start" /\ solver = "cw"
    /\ scores' = AllPairs
    /\ routes' = [i \in Nodes |-> IF i = 0 THEN None ELSE <<i>>]
    /\ route_demands' = demands
    /\ pc' = "scan"
    /\ UNCHANGED <<solver, instance, saVars, irVars, best_solution, best_fitness,
                   iter, result>>

CWFrame == UNCHANGED <<solver, instance, pc, saVars, irVars, best_solution,
                       best_fitness, iter, result>>

\* a pair that is skipped by one of the two `continue`s before the merge
CWSkip ==
    /\ pc = "scan"
    /\ \E p \in NextPairs :
        /\ CWSkipped(p[1], p[2])
        /\ scores' = scores \ {p}
    /\ UNCHANGED <<routes, route_demands>>
    /\ CWFrame

\* a pair whose routes were taken out of the table and whose concatenation
\* is longer than the bound allows: `continue` after routes[i].take() and
\* routes[j].take()
CWReject ==
    /\ pc = "scan"
    /\ \E p \in NextPairs :
        /\ ~CWSkipped(p[1], p[2])
        /\ ExceedsDistance(calculate_route_distance(NewRoute(p[1], p[2])))
        /\ routes' = [routes EXCEPT ![p[1]] = None, ![p[2]] = None]
        /\ scores' = scores \ {p}
    /\ UNCHANGED route_demands
    /\ CWFrame

CWMerge ==
    /\ pc = "scan"
    /\ \E p \in NextPairs :
        LET i == p[1]
            j == p[2]
            merged_demand == MergedDemand(routes[i][1], routes[j][1])
            new_route == NewRoute(i, j)
            start == new_route[1]
            end == Last(new_route)
        IN  /\ ~CWSkipped(i, j)
            /\ ~ExceedsDistance(calculate_route_distance(new_route))
            /\ routes' = [k \in Nodes |->
                            IF k = start \/ k = end THEN new_route
                            ELSE IF k = i \/ k = j THEN None
                            ELSE routes[k]]
            /\ route_demands' = [k \in Nodes |->
                            IF k = start \/ k = end THEN merged_demand
                            ELSE route_demands[k]]
            /\ scores' = scores \ {p}
    /\ CWFrame

\* final_routes: in index order, the routes recorded under their first node
RECURSIVE FinalRoutes(_)
FinalRoutes(i) ==
    IF i >= num_nodes THEN <<>>
    ELSE IF routes[i] # None /\ routes[i][1] = i
         THEN <<(<<0>> \o routes[i] \o <<0>>)>> \o FinalRoutes(i + 1)
         ELSE FinalRoutes(i + 1)

CWFinish ==
    /\ pc = "scan" /\ scores = {}
    /\ result' = [kind |-> "Some", routes |-> FinalRoutes(0)]
    /\ pc' = "done"
    /\ UNCHANGED <<solver, instance, cwVars, saVars, irVars, best_solution,
                   best_fitness, iter>>

NextCW == CWStart \/ CWSkip \/ CWReject \/ CWMerge \/ CWFinish

InitCW == InitFor(NumNodes, {"cw"})
SpecCW == InitCW /\ [][NextCW]_vars

\* ========================================================================
\* annealing.rs
\* ========================================================================
\* The loop shared by initialize_solution and generate_neighbor: a new route
\* <<0>> is opened when the next node does not fit, the node is pushed on
\* the last route; acc is the vector of routes built so far.
RECURSIVE PackLoop(_, _, _)
PackLoop(nodes, acc, load) ==
    IF nodes = <<>> THEN acc
    ELSE LET node == Head(nodes)
             opened == load + demands[node] > capacity
             acc1 == IF opened THEN Append(acc, <<0>>) ELSE acc
             load1 == IF opened THEN 0 ELSE load
         IN  PackLoop(Tail(nodes),
                      [acc1 EXCEPT ![Len(acc1)] = Append(@, node)],
                      load1 + demands[node])

\* for route in &mut routes { route.push(0) }
PushDepot(rs) == [r \in 1..Len(rs) |-> Append(rs[r], 0)]

\* initialize_solution on the shuffled vector `nodes`
initialize_solution(nodes) == PushDepot(PackLoop(nodes, <<(<<0>>)>>, 0))

\* the shuffles of (1..n)
Shuffles ==
    {q \in [1..(num_nodes - 1) -> Customers] :
        \A a, b \in 1..(num_nodes - 1) : a # b => q[a] # q[b]}

\* Vec::swap on 0-based positions a and b
SwapAt(route, a, b) ==
    [k \in 1..Len(route) |->
        IF k = a + 1 THEN At(route, b) ELSE IF k = b + 1 THEN At(route, a) ELSE route[k]]

\* generate_neighbor with the three draws of the random source; node_idx and
\* new_idx are drawn only when the route has more than 3 elements
generate_neighbor(solution, route_idx, node_idx, new_idx) ==
    LET route == At(solution, route_idx)
        swapped == IF Len(route) > 3 THEN SwapAt(route, node_idx, new_idx) ELSE route
    IN  PushDepot(PackLoop(swapped, <<(<<0>>)>>, 0))

SAInit ==
    /\ pc = "start" /\ solver = "sa"
    /\ \E nodes \in Shuffles :
        /\ current_solution' = initialize_solution(nodes)
        /\ current_fitness' = calculate_fitness(initialize_solution(nodes))
        /\ best_solution' = initialize_solution(nodes)
        /\ best_fitness' = calculate_fitness(initialize_solution(nodes))
    /\ pc' = "anneal"
    /\ UNCHANGED <<solver, instance, cwVars, irVars, iter, result>>

\* One inner iteration.  The acceptance probability is 1.0 when the neighbour
\* is not worse (exp(0) = 1.0 and the draw is below 1.0); otherwise it lies
\* strictly between 0 and 1 at the temperatures of the explored iterations,
\* so the draw can go either way.
SAStep ==
    /\ pc = "anneal" /\ iter < MaxAnnealIters
    /\ \E route_idx \in 0..(Len(current_solution) - 1) :
       \E node_idx, new_idx \in
            (IF Len(At(current_solution, route_idx)) > 3
             THEN 1..(Len(At(current_solution, route_idx)) - 2) ELSE {1}) :
       \E draw_accepts \in BOOLEAN :
        LET neighbor_solution ==
                generate_neighbor(current_solution, route_idx, node_idx, new_idx)
            neighbor_fitness == calculate_fitness(neighbor_solution)
            accepted == neighbor_fitness <= current_fitness \/ draw_accepts
        IN  /\ current_solution' = IF accepted THEN neighbor_solution ELSE current_solution
            /\ current_fitness' = IF accepted THEN neighbor_fitness ELSE current_fitness
            /\ best_solution' = IF accepted /\ neighbor_fitness < best_fitness
                                THEN neighbor_solution ELSE best_solution
            /\ best_fitness' = IF accepted /\ neighbor_fitness < best_fitness
                               THEN neighbor_fitness ELSE best_fitness
    /\ iter' = iter + 1
    /\ UNCHANGED <<solver, instance, pc, cwVars, irVars, result>>

\* the temperature has fallen to MIN_TEMPERATURE
SAFinish ==
    /\ pc = "anneal" /\ iter = MaxAnnealIters
    /\ result' = [kind |-> "Some", routes |-> best_solution]
    /\ pc' = "done"
    /\ UNCHANGED <<solver, instance, cwVars, saVars, irVars, best_solution,
                   best_fitness, iter>>

NextSA == SAInit \/ SAStep \/ SAFinish

InitSA == InitFor(NumNodes, {"sa"})
SpecSA == InitSA /\ [][NextSA]_vars

\* ========================================================================
\* "test copy.rs": iterative refinement
\* ========================================================================
\* construct_initial_solution: the unvisited node that fits and is nearest to
\* last_node; `distance < nearest_distance` keeps the first index among
\* equal distances.  0 stands for None (the depot is never a candidate).
NearestNode(last_node) ==
    LET fits == {j \in Customers :
                    ~visited[j] /\ current_load + demands[j] <= capacity}
    IN  IF fits = {} THEN 0
        ELSE CHOOSE j \in fits :
                \A k \in fits :
                    \/ distance_matrix[last_node][j] < distance_matrix[last_node][k]
                    \/ /\ distance_matrix[last_node][j] = distance_matrix[last_node][k]
                       /\ j <= k

\* the closing loop: push 0 on every route that does not end with 0
CloseRoutes(solution) ==
    [r \in 1..Len(solution) |->
        IF Last(solution[r]) # 0 THEN Append(solution[r], 0) ELSE solution[r]]

\* route[i..=j].reverse()
ReverseWindow(route, i, j) ==
    [k \in 1..Len(route) |->
        IF i + 1 <= k /\ k <= j + 1 THEN route[i + j + 2 - k] ELSE route[k]]

\* variant: the old edge (route[j], route[j + 1]) is left out of the delta
TwoOptDeltaNoLast(route, i, j) ==
    distance_matrix[At(route, i - 1)][At(route, j)]
    + distance_matrix[At(route, i)][At(route, j + 1)]
    - distance_matrix[At(route, i - 1)][At(route, i)]

\* delta of the four boundary edges of the window i..=j
TwoOptDelta(route, i, j) ==
    distance_matrix[At(route, i - 1)][At(route, j)]
    + distance_matrix[At(route, i)][At(route, j + 1)]
    - distance_matrix[At(route, i - 1)][At(route, i)]
    - distance_matrix[At(route, j)][At(route, j + 1)]

\* the loops `for i in 1..route_len - 2` and `for j in i + 1..route_len - 1`
\* of one route, from the pair (i, j) on
RECURSIVE TwoOptPairs(_, _, _, _)
TwoOptPairs(route, i, j, improved) ==
    IF i >= Len(route) - 2 THEN [route |-> route, improved |-> improved]
    ELSE IF j >= Len(route) - 1 THEN TwoOptPairs(route, i + 1, i + 2, improved)
    ELSE IF j - i = 1 THEN TwoOptPairs(route, i, j + 1, improved)
    ELSE IF TwoOptDelta(route, i, j) < 0
         THEN TwoOptPairs(ReverseWindow(route, i, j), i, j + 1, TRUE)
         ELSE TwoOptPairs(route, i, j + 1, improved)

\* one pass of `while improved` over all routes
TwoOptScan(solution) ==
    LET per == [r \in 1..Len(solution) |-> TwoOptPairs(solution[r], 1, 2, FALSE)]
    IN  [solution |-> [r \in 1..Len(solution) |-> per[r].route],
         improved |-> \E r \in 1..Len(solution) : per[r].improved]

\* loop order of a move (route, position, route, position)
LexLeq(m, k) ==
    \/ m[1] < k[1]
    \/ m[1] = k[1] /\ m[2] < k[2]
    \/ m[1] = k[1] /\ m[2] = k[2] /\ m[3] < k[3]
    \/ m[1] = k[1] /\ m[2] = k[2] /\ m[3] = k[3] /\ m[4] <= k[4]

\* `if delta < best_delta` from best_delta = 0: the first move in loop order
\* among those of least delta, when that delta is negative; <<>> is None
\* a scored move is <<move, delta>>
BestMove(scored) ==
    LET improving == {m \in scored : m[2] < 0}
        least == {m \in improving : \A k \in improving : m[2] <= k[2]}
    IN  IF improving = {} THEN None
        ELSE (CHOOSE m \in least : \A k \in least : LexLeq(m[1], k[1]))[1]

\* the (route, position, route, position) a move is searched among
Positions(solution) ==
    LET routeIdx == 0..(Len(solution) - 1)
        posIdx == UNION {1..(Len(solution[r]) - 1) : r \in 1..Len(solution)}
    IN  routeIdx \X posIdx \X routeIdx \X posIdx

\* apply_insertion_move: the moves that pass the capacity check
InsertionMoves(solution) ==
    {m \in Positions(solution) :
        /\ m[2] <= Len(At(solution, m[1])) - 2
        /\ m[3] # m[1]
        /\ RouteLoad(At(solution, m[3])) + demands[At(At(solution, m[1]), m[2])]
                <= capacity
        /\ m[4] <= Len(At(solution, m[3])) - 1}

InsertionDelta(solution, m) ==
    LET route == At(solution, m[1])
        i == m[2]
        new_route == At(solution, m[3])
        j == m[4]
        node == At(route, i)
    IN  distance_matrix[At(route, i - 1)][At(route, i + 1)]
        - distance_matrix[At(route, i - 1)][node]
        - distance_matrix[node][At(route, i + 1)]
        + distance_matrix[At(new_route, j - 1)][node]
        + distance_matrix[node][At(new_route, j)]
        - distance_matrix[At(new_route, j - 1)][At(new_route, j)]

\* Vec::remove and Vec::insert on a 0-based position
RemoveAt(s, k) == SubSeq(s, 1, k) \o SubSeq(s, k + 2, Len(s))
InsertAt(s, k, x) == SubSeq(s, 1, k) \o <<x>> \o SubSeq(s, k + 1, Len(s))

apply_insertion_move(solution) ==
    LET best_move ==
            BestMove({<<m, InsertionDelta(solution, m)>> : m \in InsertionMoves(solution)})
    IN  IF best_move = None THEN solution
        ELSE LET node == At(At(solution, best_move[1]), best_move[2])
             IN  [r \in 1..Len(solution) |->
                    IF r = best_move[1] + 1 THEN RemoveAt(solution[r], best_move[2])
                    ELSE IF r = best_move[3] + 1
                         THEN InsertAt(solution[r], best_move[4], node)
                         ELSE solution[r]]

\* apply_swap_move: the pairs of positions that pass the capacity check
SwapMoves(solution) ==
    {m \in Positions(solution) :
        /\ m[2] <= Len(At(solution, m[1])) - 2
        /\ m[3] >= m[1]
        /\ m[4] >= (IF m[1] = m[3] THEN m[2] + 1 ELSE 1)
        /\ m[4] <= Len(At(solution, m[3])) - 2
        /\ \/ m[1] = m[3]
           \/ LET node1 == At(At(solution, m[1]), m[2])
                  node2 == At(At(solution, m[3]), m[4])
                  load1 == RouteLoad(At(solution, m[1]))
                  load2 == RouteLoad(At(solution, m[3]))
              IN  ~ \/ load1 - demands[node1] + demands[node2] > capacity
                    \/ load2 - demands[node2] + demands[node1] > capacity}

SwapDelta(solution, m) ==
    LET r1 == At(solution, m[1])
        i == m[2]
        r2 == At(solution, m[3])
        j == m[4]
        node1 == At(r1, i)
        node2 == At(r2, j)
    IN  distance_matrix[At(r1, i - 1)][node2] + distance_matrix[node2][At(r1, i + 1)]
        - distance_matrix[At(r1, i - 1)][node1] - distance_matrix[node1][At(r1, i + 1)]
        + distance_matrix[At(r2, j - 1)][node1] + distance_matrix[node1][At(r2, j + 1)]
        - distance_matrix[At(r2, j - 1)][node2] - distance_matrix[node2][At(r2, j + 1)]

\* solution[route_idx1][i] = solution[route_idx2][j];
\* solution[route_idx2][j] = solution[route_idx1][i];
\* the second statement reads the position the first one has just written
SwapWrites(solution, m) ==
    LET first == [solution EXCEPT ![m[1] + 1][m[2] + 1] = At(At(solution, m[3]), m[4])]
    IN  [first EXCEPT ![m[3] + 1][m[4] + 1] = At(At(first, m[1]), m[2])]

best_swap_move(solution) ==
    BestMove({<<m, SwapDelta(solution, m)>> : m \in SwapMoves(solution)})

apply_swap_move(solution) ==
    IF best_swap_move(solution) = None THEN solution
    ELSE SwapWrites(solution, best_swap_move(solution))

\* if new_fitness < best_fitness
Improves(new_fitness, fitness) == new_fitness < fitness

\* variant: the bound has to be beaten, not met
MeetsBoundStrictly(fitness) == fitness < max_total_distance

\* if best_fitness <= max_total_distance
MeetsBound(fitness) == fitness <= max_total_distance

IRFrame == UNCHANGED <<solver, instance, cwVars, saVars>>

IRStart ==
    /\ pc = "start" /\ solver = "ir"
    /\ best_solution' = <<(<<0>>)>>
    /\ visited' = [i \in Nodes |-> i = 0]
    /\ current_load' = 0
    /\ pc' = "construct"
    /\ UNCHANGED <<best_fitness, new_solution, iter, result>>
    /\ IRFrame

\* one iteration of `while visited.iter().any(|&v| !v)`; the vector under
\* construction is held in best_solution, which receives it
IRConstructStep ==
    /\ pc = "construct"
    /\ \E j \in Nodes : ~visited[j]
    /\ Len(best_solution) < MaxRoutes
    /\ LET next_node == NearestNode(Last(Last(best_solution)))
       IN  IF next_node # 0
           THEN /\ best_solution' = [best_solution EXCEPT
                        ![Len(best_solution)] = Append(@, next_node)]
                /\ visited' = [visited EXCEPT ![next_node] = TRUE]
                /\ current_load' = current_load + demands[next_node]
           ELSE /\ best_solution' = Append([best_solution EXCEPT
                        ![Len(best_solution)] = Append(@, 0)], <<0>>)
                /\ current_load' = 0
                /\ UNCHANGED visited
    /\ UNCHANGED <<pc, best_fitness, new_solution, iter, result>>
    /\ IRFrame

IRConstructDone ==
    /\ pc = "construct"
    /\ \A j \in Nodes : visited[j]
    /\ best_solution' = CloseRoutes(best_solution)
    /\ best_fitness' = calculate_total_distance(CloseRoutes(best_solution))
    /\ pc' = "init_2opt"
    /\ UNCHANGED <<new_solution, visited, current_load, iter, result>>
    /\ IRFrame

\* two_opt_optimization(&mut best_solution), one pass of its while loop; after
\* the pass that improves nothing, best_fitness is recomputed
IRTwoOptInit ==
    /\ pc = "init_2opt"
    /\ best_solution' = TwoOptScan(best_solution).solution
    /\ IF TwoOptScan(best_solution).improved
       THEN UNCHANGED <<pc, best_fitness>>
       ELSE /\ pc' = "loop"
            /\ best_fitness' = calculate_total_distance(best_solution)
    /\ UNCHANGED <<new_solution, visited, current_load, iter, result>>
    /\ IRFrame

\* top of `for _ in 0..MAX_ITERATIONS`: clone and apply_insertion_move
IRInsertion ==
    /\ pc = "loop" /\ iter < MaxIterations
    /\ new_solution' = apply_insertion_move(best_solution)
    /\ pc' = "swap"
    /\ UNCHANGED <<best_solution, best_fitness, visited, current_load, iter, result>>
    /\ IRFrame

IRSwap ==
    /\ pc = "swap"
    /\ new_solution' = apply_swap_move(new_solution)
    /\ pc' = "iter_2opt"
    /\ UNCHANGED <<best_solution, best_fitness, visited, current_load, iter, result>>
    /\ IRFrame

\* two_opt_optimization(&mut new_solution), one pass of its while loop
IRTwoOptIter ==
    /\ pc = "iter_2opt"
    /\ new_solution' = TwoOptScan(new_solution).solution
    /\ pc' = IF TwoOptScan(new_solution).improved THEN "iter_2opt" ELSE "accept"
    /\ UNCHANGED <<best_solution, best_fitness, visited, current_load, iter, result>>
    /\ IRFrame

\* the rest of the iteration: adopt new_solution when it improves, return
\* when the best fitness meets the bound
IRAccept ==
    /\ pc = "accept"
    /\ LET new_fitness == calculate_total_distance(new_solution)
           adopt == Improves(new_fitness, best_fitness)
           fitness == IF adopt THEN new_fitness ELSE best_fitness
           solution == IF adopt THEN new_solution ELSE best_solution
       IN  /\ best_solution' = solution
           /\ best_fitness' = fitness
           /\ IF MeetsBound(fitness)
              THEN /\ result' = [kind |-> "Some", routes |-> solution]
                   /\ pc' = "done"
                   /\ UNCHANGED iter
              ELSE /\ pc' = "loop"
                   /\ iter' = iter + 1
                   /\ UNCHANGED result
    /\ UNCHANGED <<new_solution, visited, current_load>>
    /\ IRFrame

\* the loop ran MAX_ITERATIONS times: Ok(None)
IRExhausted ==
    /\ pc = "loop" /\ iter = MaxIterations
    /\ result' = [kind |-> "None", routes |-> <<>>]
    /\ pc' = "done"
    /\ UNCHANGED <<best_solution, best_fitness, new_solution, visited,
                   current_load, iter>>
    /\ IRFrame

NextIR ==
    \/ IRStart \/ IRConstructStep \/ IRConstructDone \/ IRTwoOptInit
    \/ IRInsertion \/ IRSwap \/ IRTwoOptIter \/ IRAccept \/ IRExhausted

InitIR == InitFor(NumNodes, {"ir"})
SpecIR == InitIR /\ [][NextIR]_vars

\* ------------------------------------------------------------------------
\* two_opt_optimization on its own: called on any feasible solution of an
\* instance whose customers all fit one route.  The solutions are the
\* shuffles of the customers, as one route or cut into two.
CutRoutes(nodes, cuts) ==
    LET starts == {1} \cup {k + 1 : k \in cuts}
        RouteFrom(a) ==
            LET b == CHOOSE e \in a..Len(nodes) :
                        /\ e = Len(nodes) \/ e \in cuts
                        /\ \A k \in a..(e - 1) : k \notin cuts
            IN  <<0>> \o SubSeq(nodes, a, b) \o <<0>>
        Ordered == [k \in 1..Cardinality(starts) |->
                        CHOOSE a \in starts : Cardinality({c \in starts : c < a}) = k - 1]
    IN  [k \in 1..Cardinality(starts) |-> RouteFrom(Ordered[k])]

FeasibleSolutions ==
    {CutRoutes(nodes, cuts) :
        nodes \in Shuffles, cuts \in {{}} \cup {{k} : k \in 1..(num_nodes - 2)}}

\* A distance matrix that is not symmetric in any regular way: every leg
\* costs 1, and the legs of the one-way ring 0 -> 1 -> ... -> n-2 -> 0 carry
\* a toll each (the last customer is off the ring).
RingNext(i) == IF i = num_nodes - 2 THEN 0 ELSE i + 1

RingMatrices ==
    {[i \in Nodes |-> [j \in Nodes |->
        IF i = j THEN 0
        ELSE IF i <= num_nodes - 2 /\ j = RingNext(i) THEN 1 + toll[i]
        ELSE 1]] : toll \in [0..(num_nodes - 2) -> Tolls]}

InitTwoOptOn(matrices) ==
    /\ solver = "ir"
    /\ num_nodes = TwoOptNodes
    /\ distance_matrix \in matrices
    /\ demands = [i \in Nodes |-> IF i = 0 THEN 0 ELSE 1]
    /\ capacity = 15
    /\ max_total_distance = 100
    /\ pc = "iter_2opt"
    /\ scores = {}
    /\ routes = [i \in Nodes |-> None]
    /\ route_demands = [i \in Nodes |-> 0]
    /\ current_solution = <<>>
    /\ current_fitness = 0
    /\ best_solution = <<>>
    /\ best_fitness = 0
    /\ new_solution \in FeasibleSolutions
    /\ visited = [i \in Nodes |-> TRUE]
    /\ current_load = 0
    /\ iter = 0
    /\ result = Pending

InitTwoOpt == InitTwoOptOn(Matrices)
NextTwoOpt == IRTwoOptIter
SpecTwoOpt == InitTwoOpt /\ [][NextTwoOpt]_vars

\* two_opt_optimization on the ring matrices; the loop is one thread that
\* runs on for as long as `improved` is set
InitTwoOptRing == InitTwoOptOn(RingMatrices)
SpecTwoOptRing == InitTwoOptRing /\ [][NextTwoOpt]_vars /\ WF_vars(NextTwoOpt)

\* ========================================================================
Init == InitFor(NumNodes, {"cw", "sa", "ir"})
Next == NextCW \/ NextSA \/ NextIR
Spec == Init /\ [][Next]_vars

\* ========================================================================
\* Properties
\* ========================================================================
\* positions of the interior of a route, and the number of interior
\* occurrences of a node in a solution
Interior(route) == 2..(Len(route) - 1)

Occurrences(solution, node) ==
    Cardinality({rk \in (1..Len(solution))
                            \X UNION {Interior(solution[r]) : r \in 1..Len(solution)} :
                    /\ rk[2] \in Interior(solution[rk[1]])
                    /\ solution[rk[1]][rk[2]] = node})

Covers(solution) == \A node \in Customers : Occurrences(solution, node) = 1

RECURSIVE InteriorDemand(_, _)
InteriorDemand(route, k) ==
    IF k >= Len(route) THEN 0 ELSE demands[route[k]] + InteriorDemand(route, k + 1)

WithinCapacity(solution) ==
    \A r \in 1..Len(solution) : InteriorDemand(solution[r], 2) <= capacity

Anchored(solution) ==
    \A r \in 1..Len(solution) :
        /\ Len(solution[r]) >= 2
        /\ solution[r][1] = 0
        /\ solution[r][Len(solution[r])] = 0
        /\ \A k \in Interior(solution[r]) : solution[r][k] # 0

Returned == pc = "done" /\ result.kind = "Some"

\* the candidate solutions a solver holds in the current state
Candidates ==
    (IF solver = "sa" /\ pc = "anneal" THEN {current_solution, best_solution} ELSE {})
    \cup (IF solver = "ir" /\ pc \in {"init_2opt", "loop", "swap", "iter_2opt", "accept"}
          THEN {best_solution} ELSE {})
    \cup (IF solver = "ir" /\ pc \in {"swap", "iter_2opt", "accept"}
          THEN {new_solution} ELSE {})
    \cup (IF solver = "cw" /\ pc = "scan"
          THEN {<<(<<0>> \o routes[i] \o <<0>>)>> : i \in {k \in Nodes : routes[k] # None}}
          ELSE {})
    \cup (IF Returned THEN {result.routes} ELSE {})

\* C1 (coverage): on a valid instance every returned Solution has each
\* customer 1..num_nodes-1 at exactly one interior position of its routes.
C1_Coverage == (ValidInstance /\ Returned) => Covers(result.routes)

\* C2 (capacity): on a valid instance every route of every candidate a solver
\* holds, the returned Solution included, carries interior demand <= capacity.
C2_Capacity == ValidInstance => \A solution \in Candidates : WithinCapacity(solution)

\* C3 (anchoring): every route of a returned Solution, and of every candidate
\* of the annealing loop, starts and ends with node 0 and has no node 0 inside.
C3_Anchoring ==
    /\ Returned => Anchored(result.routes)
    /\ (solver = "sa" /\ pc = "anneal") =>
            Anchored(current_solution) /\ Anchored(best_solution)

\* C4 (malformed input): when a customer demand exceeds the capacity, a solver
\* that ends has ended with the failure outcome Err.
C4_MalformedRejected == (~ValidInstance /\ pc = "done") => result.kind = "Err"

\* ------------------------------------------------------------------------
\* the state of the iterative controller between the statements of its loop
InLoop == solver = "ir" /\ pc \in {"loop", "swap", "iter_2opt", "accept"}

C5_State ==
    /\ (solver = "ir" /\ Returned) =>
            /\ calculate_total_distance(result.routes) <= max_total_distance
            /\ result.routes = best_solution
            /\ iter < MaxIterations
    /\ (solver = "ir" /\ pc = "done" /\ result.kind = "None") =>
            /\ iter = MaxIterations
            /\ calculate_total_distance(best_solution) > max_total_distance
    /\ (solver = "ir" /\ pc = "loop" /\ iter > 0) =>
            calculate_total_distance(best_solution) > max_total_distance
    /\ InLoop => best_fitness = calculate_total_distance(best_solution)

C5_Step ==
    /\ InLoop => best_fitness' <= best_fitness
    /\ (solver = "ir" /\ pc = "accept") =>
            (pc' = "done" /\ result'.kind = "Some")
                = (calculate_total_distance(best_solution') <= max_total_distance)
    /\ (solver = "ir" /\ pc = "loop" /\ pc' = "done") =>
            result'.kind = "None" /\ iter = MaxIterations

\* C5 (iterative-refinement outcome): a Solution is returned only with total
\* distance <= max_total_distance, at the end of the first iteration whose
\* best cost meets the bound; the best cost never increases over the
\* iterations; Ok(None) is returned exactly when all iterations ended with the
\* best cost above the bound.
C5_Outcome == [](C5_State) /\ [][C5_Step]_vars

C5_Witness == solver = "ir" /\ Returned /\ iter > 0

\* ------------------------------------------------------------------------
\* the documented savings scenario: depot + 3 customers of demand 10,
\* capacity 15, a distance bound no route of the model exceeds
Scenario ==
    /\ solver = "cw"
    /\ demands = [i \in 0..3 |-> IF i = 0 THEN 0 ELSE 10]
    /\ capacity = 15
    /\ max_total_distance = 100

CustomersOf(route) == Len(route) - 2

\* C6 as stated (savings scenario): exactly one merge succeeds, the result is
\* one route of two customers and one route of one customer.
C6_OneMerge ==
    (Scenario /\ Returned) =>
        /\ Len(result.routes) = 2
        /\ {CustomersOf(result.routes[r]) : r \in 1..2} = {1, 2}

\* C6 amended (savings scenario): no merge succeeds, since any two demands add
\* up to 20 > 15; the table keeps the three singleton routes and the result
\* is three routes of one customer each.
C6_NoMerge ==
    /\ (Scenario /\ pc = "scan") => routes = [i \in 0..3 |-> IF i = 0 THEN None ELSE <<i>>]
    /\ (Scenario /\ Returned) => result.routes = <<(<<0, 1, 0>>), (<<0, 2, 0>>), (<<0, 3, 0>>)>>

C6_Witness == Scenario /\ Returned

\* C7 (distance-rejected merge): a pair that passes the existence, same-route
\* and capacity checks and is rejected for its distance leaves the route table
\* and the route demands as they were.
C7_RejectKeepsTable ==
    [][CWReject => (routes' = routes /\ route_demands' = route_demands)]_vars

\* C8 (swap): when apply_swap_move applies its best move (route1, i, route2, j)
\* the two positions exchange their nodes and every other position is unchanged.
C8_SwapExchanges ==
    [][(solver = "ir" /\ pc = "swap" /\ best_swap_move(new_solution) # None) =>
        LET m == best_swap_move(new_solution)
            node1 == At(At(new_solution, m[1]), m[2])
            node2 == At(At(new_solution, m[3]), m[4])
        IN  /\ Len(new_solution') = Len(new_solution)
            /\ \A r \in 1..Len(new_solution) :
                /\ Len(new_solution'[r]) = Len(new_solution[r])
                /\ \A k \in 1..Len(new_solution[r]) :
                    new_solution'[r][k] =
                        IF r = m[1] + 1 /\ k = m[2] + 1 THEN node2
                        ELSE IF r = m[3] + 1 /\ k = m[4] + 1 THEN node1
                        ELSE new_solution[r][k]]_vars

\* C9 (annealing neighbour): a neighbour that replaces the current candidate
\* keeps every route but the picked one and serves the same customers.
C9_NeighborKeepsRoutes ==
    [][(solver = "sa" /\ pc = "anneal" /\ current_solution' # current_solution) =>
        /\ \E picked \in 1..Len(current_solution) :
            \A r \in (1..Len(current_solution)) \ {picked} :
                \E q \in 1..Len(current_solution') :
                    current_solution'[q] = current_solution[r]
        /\ \A node \in Customers :
            Occurrences(current_solution', node) = Occurrences(current_solution, node)]_vars

\* ------------------------------------------------------------------------
\* the solution two_opt_optimization has just returned
TwoOptReturned == solver = "ir" /\ pc \in {"loop", "accept"} /\ result = Pending
TwoOptResult == IF pc = "accept" THEN new_solution ELSE best_solution

\* boundary-edge delta of reversing route[i..=j], positions counted from 0
ReversalDelta(route, i, j) ==
    distance_matrix[route[i]][route[j + 1]] + distance_matrix[route[i + 1]][route[j + 2]]
    - distance_matrix[route[i]][route[i + 1]] - distance_matrix[route[j + 1]][route[j + 2]]

\* C10 as stated (2-opt local optimality): when two_opt_optimization returns,
\* no reversal of a window i < j of interior positions has negative delta.
C10_LocalOptimum ==
    TwoOptReturned =>
        \A r \in 1..Len(TwoOptResult) :
            \A i, j \in 1..(Len(TwoOptResult[r]) - 2) :
                i < j => ReversalDelta(TwoOptResult[r], i, j) >= 0

\* C10 amended: when two_opt_optimization returns, no reversal of a window of
\* interior positions i, j with j - i >= 2 has negative delta (windows of two
\* adjacent positions are not examined).
C10_NonAdjacentOptimum ==
    TwoOptReturned =>
        \A r \in 1..Len(TwoOptResult) :
            \A i, j \in 1..(Len(TwoOptResult[r]) - 2) :
                j - i >= 2 => ReversalDelta(TwoOptResult[r], i, j) >= 0

\* 2-opt has returned a route with windows that are not adjacent pairs
C10_Witness ==
    /\ solver = "ir" /\ pc = "accept"
    /\ \E r \in 1..Len(new_solution) : Len(new_solution[r]) >= 6

\* ------------------------------------------------------------------------
\* C11 (2-opt terminates): on every feasible solution and every matrix of
\* non-negative integers, symmetric or not, two_opt_optimization comes to a
\* scan that reverses nothing and returns.
C11_TwoOptTerminates == <>(solver = "ir" /\ pc = "accept")

====
